---------------------------- MODULE Spec2Model ----------------------------
(***************************************************************************)
(* AvroDocumentationGenerator (src/avro_doc_generator.py): the registry    *)
(* walk (_extract_nested_types), the relation walk                         *)
(* (_generate_class_relations), the Mermaid class diagram and the Markdown *)
(* document, as a state machine over a parsed Avro type tree.              *)
(*                                                                         *)
(* A type node is an object of the parsed tree.  Its identity (Python's    *)
(* id()) is its index in the heap; index RootId is self.schema.            *)
(*   cls   "Schema" an avro Schema object (it has a .type attribute),      *)
(*         "list"   a Python list (what the code takes for a union),       *)
(*         "str"    a bare Python string (no .type attribute)              *)
(***************************************************************************)
EXTENDS Integers, Sequences, FiniteSets, TLC

VARIABLES
    schema,              \* self.schema: the root node (the chosen input)
    records,             \* self.records: dict name -> node, in insertion order
    enums,               \* self.enums: dict name -> node, in insertion order
    processed_types,     \* self.processed_types: set of id(type_schema)
    pc,                  \* where generate_markdown_documentation stands
    extract_stack,       \* pending calls of _extract_from_type, next call first
    rel_stack,           \* call stack of process_type_relations, innermost first
    relations,           \* the lines of the local 'relations', in emission order
    processed_relations, \* the local set 'processed_relations'
    mermaid_diagram,     \* the class declarations of the diagram block
    doc,                 \* the document returned by the last finished pass
    passes,              \* number of finished passes on this instance
    prev,                \* what the pass before the last one produced
    visit_log,           \* history: nodes in the order _extract_from_type expanded them
    expanded,            \* history: <<node, depth>> of calls that passed the depth guard
    suppressed,          \* history: number of relation lines the dedup set held back
    cutoffs              \* history: number of calls cut by the depth guard

vars == <<schema, records, enums, processed_types, pc, extract_stack, rel_stack,
          relations, processed_relations, mermaid_diagram, doc, passes, prev,
          visit_log, expanded, suppressed, cutoffs>>

(***************************************************************************)
(* Bounds of the model.                                                    *)
(***************************************************************************)
MaxRootFields == 2
MaxPasses == 2

(* if depth > 10: return *)
MaxDepth == 10

(***************************************************************************)
(* The type tree.                                                          *)
(***************************************************************************)
RootId == 1
NoParent == ""

Field(n, t, d, v) == [name |-> n, type |-> t, doc |-> d, dflt |-> v]
NoDefault == "<no default>"
DefaultRaises == "<raises>"

Blank == [cls |-> "Schema", type |-> "", name |-> "", namespace |-> "", doc |-> "",
          fields |-> <<>>, items |-> 0, values |-> 0, members |-> <<>>,
          symbols |-> <<>>, repr |-> ""]

RecordNode(n, ns, d, fs) ==
    [Blank EXCEPT !.type = "record", !.name = n, !.namespace = ns, !.doc = d, !.fields = fs]
EnumNode(n, ns, d, syms) ==
    [Blank EXCEPT !.type = "enum", !.name = n, !.namespace = ns, !.doc = d, !.symbols = syms]
ArrayNode(t) == [Blank EXCEPT !.type = "array", !.items = t]
MapNode(t) == [Blank EXCEPT !.type = "map", !.values = t]
PrimitiveNode(t) == [Blank EXCEPT !.type = t, !.repr = t]
ListNode(ms) == [Blank EXCEPT !.cls = "list", !.members = ms, !.repr = "[...]"]
StrNode(s) == [Blank EXCEPT !.cls = "str", !.repr = s]

(* A chain of records K1 -> K2 -> ... -> K11, K1 at index ChainBase + 1. *)
ChainBase == 17
ChainLen == 11
ChainName == <<"K1", "K2", "K3", "K4", "K5", "K6", "K7", "K8", "K9", "K10", "K11">>
ChainNode(i) ==
    CASE i = 9  -> RecordNode(ChainName[i], "ex", "",
                       <<Field("l", 9, "", NoDefault), Field("k", ChainBase + i + 1, "", NoDefault)>>)
      [] i = 10 -> RecordNode(ChainName[i], "ex", "",
                       <<Field("l", 8, "", NoDefault), Field("k", ChainBase + i + 1, "", NoDefault)>>)
      [] i = 11 -> RecordNode(ChainName[i], "ex", "", <<Field("e", 4, "", NoDefault)>>)
      [] OTHER  -> RecordNode(ChainName[i], "ex", "",
                       <<Field("k", ChainBase + i + 1, "", NoDefault)>>)

HeapIds == 2 .. (ChainBase + ChainLen)
Heap == [id \in HeapIds |->
    CASE id = 2  -> PrimitiveNode("string")
      [] id = 3  -> StrNode("null")
      [] id = 4  -> EnumNode("E", "ex", "an enum", <<"A", "B">>)
      [] id = 5  -> RecordNode("S", "ex", "a leaf record",
                        <<Field("street", 2, "", NoDefault), Field("city", 2, "where", "Paris")>>)
      [] id = 6  -> RecordNode("T", "ex", "",
                        <<Field("s", 5, "", NoDefault), Field("e", 4, "", DefaultRaises)>>)
      [] id = 7  -> RecordNode("Node", "ex", "",
                        <<Field("next", 7, "", NoDefault), Field("val", 2, "", NoDefault)>>)
      [] id = 8  -> ArrayNode(5)
      [] id = 9  -> ArrayNode(4)
      [] id = 10 -> MapNode(6)
      [] id = 11 -> ListNode(<<2, 6>>)
      [] id = 12 -> ListNode(<<3, 8, 4>>)
      [] id = 13 -> ArrayNode(14)
      [] id = 14 -> ArrayNode(6)
      [] id = 15 -> RecordNode("S", "other", "", <<Field("q", 4, "", NoDefault)>>)
      [] id = 16 -> EnumNode("E", "other", "", <<"C">>)
      [] id = 17 -> RecordNode("B", "ex", "", <<Field("r", RootId, "", NoDefault)>>)
      [] OTHER   -> ChainNode(id - ChainBase)]

NodeIds == {RootId} \cup HeapIds
Node(id) == IF id = RootId THEN schema ELSE Heap[id]

(* The types a field of the root may have, and the roots Init draws from. *)
RootFieldTypes == (2 .. 17) \cup {ChainBase + 1}
RootFieldNames == <<"f", "g", "h", "i">>
RootFieldSeqs == UNION {[1 .. n -> RootFieldTypes] : n \in 1 .. MaxRootFields}
RootNode(ts) ==
    RecordNode("R", "ex", "the root",
        [i \in 1 .. Len(ts) |-> Field(RootFieldNames[i], ts[i], "", NoDefault)])
Roots == {RootNode(ts) : ts \in RootFieldSeqs}

(***************************************************************************)
(* Python's tests on a node.                                               *)
(***************************************************************************)
IsList(id) == Node(id).cls = "list"          \* isinstance(x, list)
IsStr(id) == Node(id).cls = "str"            \* isinstance(x, str)
HasType(id) == Node(id).cls = "Schema"       \* hasattr(x, 'type')
TypeOf(id) == Node(id).type
HasName(id) == HasType(id) /\ TypeOf(id) \in {"record", "enum"}   \* hasattr(x, 'name')
FieldTypes(id) == [i \in 1 .. Len(Node(id).fields) |-> Node(id).fields[i].type]

(***************************************************************************)
(* A dict that keeps insertion order: a sequence of [key, value].          *)
(***************************************************************************)
DictKeys(d) == {d[i].key : i \in 1 .. Len(d)}
DictHas(d, k) == k \in DictKeys(d)
DictSet(d, k, v) ==
    IF DictHas(d, k)
    THEN [i \in 1 .. Len(d) |-> IF d[i].key = k THEN [key |-> k, value |-> v] ELSE d[i]]
    ELSE Append(d, [key |-> k, value |-> v])

(***************************************************************************)
(* _extract_nested_types                                                   *)
(***************************************************************************)

(* Faulty variant: the walk starts on the root itself. *)
RootCallsFromRoot == <<RootId>>

(* if schema.type == 'record': for field in schema.fields:                 *)
(*     _extract_from_type(field.type)                                      *)
RootCalls == IF schema.type = "record" THEN FieldTypes(RootId) ELSE <<>>

(* Faulty variant: the values of a map are not walked. *)
ExtractChildrenNoMap(t) ==
    IF IsList(t) THEN Node(t).members
    ELSE IF ~HasType(t) THEN <<>>
    ELSE CASE TypeOf(t) = "record" -> FieldTypes(t)
           [] TypeOf(t) = "array"  -> <<Node(t).items>>
           [] OTHER                -> <<>>

(* The calls the body of _extract_from_type makes on an unvisited node, in *)
(* order.                                                                  *)
ExtractChildren(t) ==
    IF IsList(t) THEN Node(t).members
    ELSE IF ~HasType(t) THEN <<>>
    ELSE CASE TypeOf(t) = "record" -> FieldTypes(t)
           [] TypeOf(t) = "array"  -> <<Node(t).items>>
           [] TypeOf(t) = "map"    -> <<Node(t).values>>
           [] OTHER                -> <<>>

(* if hasattr(type_schema, 'name') and type_schema.name not in self.records: *)
(*     self.records[type_schema.name] = type_schema                        *)
RegisterRecord(d, t) ==
    IF HasName(t) /\ ~DictHas(d, Node(t).name) THEN DictSet(d, Node(t).name, t) ELSE d

(* if hasattr(type_schema, 'name'): self.enums[type_schema.name] = type_schema *)
RegisterEnum(d, t) ==
    IF HasName(t) THEN DictSet(d, Node(t).name, t) ELSE d

(* Faulty variant: the visited set of the pass before is kept. *)
StaleProcessedTypes == processed_types

(* self.records = {}; self.enums = {}; self.processed_types = set();       *)
(* self._extract_nested_types(self.schema)                                 *)
ResetProcessedTypes == {}

Generate ==
    /\ pc \in {"ready", "done"}
    /\ passes < MaxPasses
    /\ prev' = [records |-> records, enums |-> enums, relations |-> relations, doc |-> doc]
    /\ records' = <<>>
    /\ enums' = <<>>
    /\ processed_types' = ResetProcessedTypes
    /\ visit_log' = <<>>
    /\ extract_stack' = RootCalls
    /\ pc' = "extract"
    /\ UNCHANGED <<schema, rel_stack, relations, processed_relations, mermaid_diagram,
                   doc, passes, expanded, suppressed, cutoffs>>

(* One call of _extract_from_type(type_schema). *)
ExtractFromType ==
    /\ pc = "extract"
    /\ extract_stack # <<>>
    /\ LET t == Head(extract_stack) IN
       IF t \in processed_types
       THEN /\ extract_stack' = Tail(extract_stack)
            /\ UNCHANGED <<records, enums, processed_types, visit_log>>
       ELSE /\ processed_types' = processed_types \cup {t}
            /\ visit_log' = Append(visit_log, t)
            /\ records' = IF HasType(t) /\ TypeOf(t) = "record"
                          THEN RegisterRecord(records, t) ELSE records
            /\ enums' = IF HasType(t) /\ TypeOf(t) = "enum"
                        THEN RegisterEnum(enums, t) ELSE enums
            /\ extract_stack' = ExtractChildren(t) \o Tail(extract_stack)
    /\ UNCHANGED <<schema, pc, rel_stack, relations, processed_relations, mermaid_diagram,
                   doc, passes, prev, expanded, suppressed, cutoffs>>

(***************************************************************************)
(* _generate_class_relations                                               *)
(***************************************************************************)

(* One relation line, f"    {src} {arrow} {tgt} : {label}\n", with the tag *)
(* of its relation_key and the depth of the call that wrote it.            *)
Edge(s, a, t, l, k, d) ==
    [src |-> s, arrow |-> a, tgt |-> t, label |-> l, kind |-> k, depth |-> d]
Relation(key, edge) == [key |-> key, edge |-> edge]

(* Faulty variants: the guard one level early, one level late. *)
DepthExceededEarly(depth) == depth >= MaxDepth
DepthExceededLate(depth) == depth > MaxDepth + 1

(* if depth > 10: return *)
DepthExceeded(depth) == depth > MaxDepth

(* Faulty variants: the set is never consulted; the key is never added. *)
SeenRelationNever(key, processed) == FALSE
AddRelationForgetKey(st, c) ==
    IF c.key \in st.processed
    THEN [st EXCEPT !.suppressed = @ + 1]
    ELSE [st EXCEPT !.relations = Append(@, c.edge)]

(* if relation_key not in processed_relations:                             *)
(*     relations += ...; processed_relations.add(relation_key)             *)
SeenRelation(key, processed) == key \in processed
AddRelation(st, c) ==
    IF SeenRelation(c.key, st.processed)
    THEN [st EXCEPT !.suppressed = @ + 1]
    ELSE [st EXCEPT !.relations = Append(@, c.edge), !.processed = @ \cup {c.key}]

RECURSIVE AddRelations(_, _)
AddRelations(st, cs) ==
    IF cs = <<>> THEN st ELSE AddRelations(AddRelation(st, Head(cs)), Tail(cs))

RECURSIVE Flatten(_)
Flatten(ss) == IF ss = <<>> THEN <<>> ELSE Head(ss) \o Flatten(Tail(ss))

(* A field whose type has a .type attribute: the relation of lines 84-96.  *)
DirectFieldRelations(t, f, depth) ==
    LET src == Node(t).name
        ft == f.type
    IN  IF TypeOf(ft) = "record" /\ HasName(ft)
        THEN <<Relation(<<src, Node(ft).name, f.name, "record">>,
                        Edge(src, "-->", Node(ft).name, f.name, "record", depth))>>
        ELSE IF TypeOf(ft) = "enum" /\ HasName(ft)
        THEN <<Relation(<<src, Node(ft).name, f.name, "enum">>,
                        Edge(src, "..>", Node(ft).name, f.name, "enum", depth))>>
        ELSE <<>>

(* A field whose type is a list: the relations of lines 102-117, one per   *)
(* member that is a record or an enum.                                     *)
ListMemberRelation(t, f, sub, depth) ==
    LET src == Node(t).name
    IN  IF ~HasType(sub) THEN <<>>
        ELSE IF TypeOf(sub) = "record"
        THEN <<Relation(<<src, Node(sub).name, f.name, "record_list">>,
                        Edge(src, "-->", Node(sub).name, f.name, "record_list", depth))>>
        ELSE IF TypeOf(sub) = "enum"
        THEN <<Relation(<<src, Node(sub).name, f.name, "enum_list">>,
                        Edge(src, "..>", Node(sub).name, f.name, "enum_list", depth))>>
        ELSE <<>>
ListFieldRelations(t, f, depth) ==
    Flatten([j \in 1 .. Len(Node(f.type).members) |->
                ListMemberRelation(t, f, Node(f.type).members[j], depth)])

(* The relations one field of record t gives (lines 81-117). *)
FieldRelations(t, f, depth) ==
    IF HasType(f.type) THEN DirectFieldRelations(t, f, depth)
    ELSE IF IsList(f.type) THEN ListFieldRelations(t, f, depth)
    ELSE <<>>

(* An array whose items have a .type attribute: the relation of lines      *)
(* 122-136.                                                                *)
ArrayLabel(name) == name \o " liste"
ArrayRelations(t, parent_name, depth) ==
    LET it == Node(t).items
    IN  IF TypeOf(it) = "record" /\ HasName(it)
        THEN IF parent_name # NoParent
             THEN <<Relation(<<parent_name, Node(it).name, "array_record">>,
                             Edge(parent_name, "-->", Node(it).name,
                                  ArrayLabel(Node(it).name), "array_record", depth))>>
             ELSE <<>>
        ELSE IF TypeOf(it) = "enum" /\ HasName(it)
        THEN IF parent_name # NoParent
             THEN <<Relation(<<parent_name, Node(it).name, "array_enum">>,
                             Edge(parent_name, "..>", Node(it).name,
                                  ArrayLabel(Node(it).name), "array_enum", depth))>>
             ELSE <<>>
        ELSE <<>>

(* A call process_type_relations(type_schema, parent_name, depth); at 0 it *)
(* has not run yet, at i >= 1 its loop stands before element i.            *)
Call(t, parent_name, depth) == [node |-> t, parent |-> parent_name, depth |-> depth, at |-> 0]

(* What the loop of a running call iterates: the members of a list, the    *)
(* fields of a record.                                                     *)
LoopLen(t) == IF IsList(t) THEN Len(Node(t).members) ELSE Len(Node(t).fields)

RelState == [relations |-> relations, processed |-> processed_relations,
             suppressed |-> suppressed]

(* Entry of process_type_relations: the guards of lines 67-77, then the    *)
(* dispatch on type_schema.type.  A list or a record starts its loop; an   *)
(* array writes its relation and ends in the call on its items (line 139). *)
RelCall ==
    /\ pc = "relations"
    /\ rel_stack # <<>>
    /\ Head(rel_stack).at = 0
    /\ LET fr == Head(rel_stack)
           t == fr.node
           rest == Tail(rel_stack)
           loop == <<[fr EXCEPT !.at = 1]>> \o rest
       IN  IF DepthExceeded(fr.depth)
           THEN /\ rel_stack' = rest
                /\ cutoffs' = cutoffs + 1
                /\ UNCHANGED <<relations, processed_relations, suppressed, expanded>>
           ELSE /\ expanded' = expanded \cup {<<t, fr.depth>>}
                /\ cutoffs' = cutoffs
                /\ IF IsList(t) THEN
                       /\ rel_stack' = loop
                       /\ UNCHANGED <<relations, processed_relations, suppressed>>
                   ELSE IF ~HasType(t) THEN
                       /\ rel_stack' = rest
                       /\ UNCHANGED <<relations, processed_relations, suppressed>>
                   ELSE IF TypeOf(t) = "record" THEN
                       /\ rel_stack' = loop
                       /\ UNCHANGED <<relations, processed_relations, suppressed>>
                   ELSE IF TypeOf(t) = "array" /\ HasType(Node(t).items) THEN
                       LET st == AddRelations(RelState, ArrayRelations(t, fr.parent, fr.depth))
                       IN  /\ relations' = st.relations
                           /\ processed_relations' = st.processed
                           /\ suppressed' = st.suppressed
                           /\ rel_stack' = <<Call(Node(t).items, fr.parent, fr.depth + 1)>> \o rest
                   ELSE
                       /\ rel_stack' = rest
                       /\ UNCHANGED <<relations, processed_relations, suppressed>>
    /\ UNCHANGED <<schema, records, enums, processed_types, pc, extract_stack,
                   mermaid_diagram, doc, passes, prev, visit_log>>

(* One turn of the loop of a running call: 'for sub_type in type_schema'   *)
(* (lines 72-73) or 'for field in type_schema.fields' (lines 81-117).      *)
RelLoop ==
    /\ pc = "relations"
    /\ rel_stack # <<>>
    /\ Head(rel_stack).at >= 1
    /\ Head(rel_stack).at <= LoopLen(Head(rel_stack).node)
    /\ LET fr == Head(rel_stack)
           t == fr.node
           next == <<[fr EXCEPT !.at = @ + 1]>> \o Tail(rel_stack)
       IN  IF IsList(t)
           THEN /\ rel_stack' = <<Call(Node(t).members[fr.at], fr.parent, fr.depth + 1)>> \o next
                /\ UNCHANGED <<relations, processed_relations, suppressed>>
           ELSE LET f == Node(t).fields[fr.at]
                    st == AddRelations(RelState, FieldRelations(t, f, fr.depth))
                IN  /\ relations' = st.relations
                    /\ processed_relations' = st.processed
                    /\ suppressed' = st.suppressed
                    /\ rel_stack' = IF HasType(f.type)
                                    THEN <<Call(f.type, Node(t).name, fr.depth + 1)>> \o next
                                    ELSE next
    /\ UNCHANGED <<schema, records, enums, processed_types, pc, extract_stack,
                   mermaid_diagram, doc, passes, prev, visit_log, expanded, cutoffs>>

(* The loop of a running call is over: the call returns. *)
RelReturn ==
    /\ pc = "relations"
    /\ rel_stack # <<>>
    /\ Head(rel_stack).at > LoopLen(Head(rel_stack).node)
    /\ rel_stack' = Tail(rel_stack)
    /\ UNCHANGED <<schema, records, enums, processed_types, pc, extract_stack, relations,
                   processed_relations, mermaid_diagram, doc, passes, prev, visit_log,
                   expanded, suppressed, cutoffs>>

(***************************************************************************)
(* Type labels.  A line of text is the sequence of the pieces the f-string *)
(* joins; accented letters of the source are written unaccented and its   *)
(* backquotes as apostrophes.                                              *)
(***************************************************************************)
RECURSIVE Join(_, _)
Join(sep, ss) ==
    IF ss = <<>> THEN ""
    ELSE IF Len(ss) = 1 THEN ss[1]
    ELSE ss[1] \o sep \o Join(sep, Tail(ss))

(* _get_single_mermaid_type *)
RECURSIVE SingleMermaidType(_)
SingleMermaidType(t) ==
    IF IsStr(t) THEN Node(t).repr
    ELSE IF HasType(t) /\ TypeOf(t) \in {"record", "enum"} THEN Node(t).name
    ELSE IF HasType(t) /\ TypeOf(t) = "array"
    THEN "List<" \o SingleMermaidType(Node(t).items) \o ">"
    ELSE IF HasType(t) /\ TypeOf(t) = "map"
    THEN "Map<" \o SingleMermaidType(Node(t).values) \o ">"
    ELSE Node(t).repr

(* _get_mermaid_field_type *)
MermaidFieldType(t) ==
    IF IsList(t)
    THEN Join(" | ", [j \in 1 .. Len(Node(t).members) |-> SingleMermaidType(Node(t).members[j])])
    ELSE SingleMermaidType(t)

(* _get_single_type_name *)
RECURSIVE SingleTypeName(_)
SingleTypeName(t) ==
    IF IsStr(t) THEN Node(t).repr
    ELSE IF HasType(t) /\ TypeOf(t) = "record" THEN "Record (" \o Node(t).name \o ")"
    ELSE IF HasType(t) /\ TypeOf(t) = "enum" THEN "Enum (" \o Node(t).name \o ")"
    ELSE IF HasType(t) /\ TypeOf(t) = "array"
    THEN "Tableau de " \o SingleTypeName(Node(t).items)
    ELSE IF HasType(t) /\ TypeOf(t) = "map"
    THEN "Map de " \o SingleTypeName(Node(t).values)
    ELSE Node(t).repr

(* _get_field_type *)
FieldTypeName(t) ==
    IF IsList(t)
    THEN Join(" ou ", [j \in 1 .. Len(Node(t).members) |-> SingleTypeName(Node(t).members[j])])
    ELSE SingleTypeName(t)

(***************************************************************************)
(* generate_mermaid_class_diagram                                          *)
(***************************************************************************)
ClassOpen(name) == <<"    class ", name, " {">>
ClassClose == <<"    }">>
BlankLine == <<>>

EnumClass(t) ==
    <<ClassOpen(Node(t).name), <<"        <<enumeration>>">>>>
    \o [j \in 1 .. Len(Node(t).symbols) |-> <<"        ", Node(t).symbols[j]>>]
    \o <<ClassClose>>

RecordClass(t) ==
    <<ClassOpen(Node(t).name)>>
    \o [j \in 1 .. Len(Node(t).fields) |->
           <<"        ", MermaidFieldType(Node(t).fields[j].type), " ", Node(t).fields[j].name>>]
    \o <<ClassClose>>

(* The class declarations: the enums of self.enums, then the records of    *)
(* self.records, each in the dict's order (lines 30-46).                   *)
ClassDeclarations ==
    <<<<"'''mermaid">>, <<"classDiagram">>>>
    \o Flatten([i \in 1 .. Len(enums) |-> EnumClass(enums[i].value)])
    \o Flatten([i \in 1 .. Len(records) |-> RecordClass(records[i].value)])

RelationLine(e) == <<"    ", e.src, " ", e.arrow, " ", e.tgt, " : ", e.label>>
RelationLines == [i \in 1 .. Len(relations) |-> RelationLine(relations[i])]

(* mermaid_diagram += self._generate_class_relations();                    *)
(* then the closing fence is appended (lines 49-51)                        *)
DiagramBlock == mermaid_diagram \o RelationLines \o <<BlankLine, <<"'''">>>>

(* The extraction is over: generate_mermaid_class_diagram writes the class *)
(* declarations and _generate_class_relations starts on self.schema.       *)
GenerateMermaid ==
    /\ pc = "extract"
    /\ extract_stack = <<>>
    /\ mermaid_diagram' = ClassDeclarations
    /\ relations' = <<>>
    /\ processed_relations' = {}
    /\ rel_stack' = <<Call(RootId, NoParent, 0)>>
    /\ expanded' = {}
    /\ suppressed' = 0
    /\ cutoffs' = 0
    /\ pc' = "relations"
    /\ UNCHANGED <<schema, records, enums, processed_types, extract_stack, doc, passes,
                   prev, visit_log>>

(***************************************************************************)
(* generate_markdown_documentation                                         *)
(***************************************************************************)

(* _parse_record_fields.  No node of the tree is a dict, so the two        *)
(* is_detailed branches (lines 326-329) add nothing.                       *)
FieldBlock(f) ==
    <<<<"**", f.name, "**">>, <<"- **Type**: ", FieldTypeName(f.type)>>>>
    \o (IF f.doc # "" THEN <<<<"- **Description**: ", f.doc>>>> ELSE <<>>)
    \o (IF f.dflt = NoDefault THEN <<>>
        ELSE IF f.dflt = DefaultRaises THEN <<<<"- **Valeur par defaut**: Non specifiee">>>>
        ELSE <<<<"- **Valeur par defaut**: '", f.dflt, "'">>>>)
    \o <<BlankLine>>
ParseRecordFields(t) ==
    IF TypeOf(t) = "record"
    THEN Flatten([j \in 1 .. Len(Node(t).fields) |-> FieldBlock(Node(t).fields[j])])
    ELSE <<>>

SubObjectSection(t) ==
    <<<<"### Sous-Objet: ", Node(t).name>>, BlankLine>>
    \o (IF Node(t).doc # "" THEN <<<<"**Description**: ", Node(t).doc>>, BlankLine>> ELSE <<>>)
    \o <<<<"#### Champs">>, BlankLine>>
    \o ParseRecordFields(t)

EnumSection(t) ==
    <<<<"### Enumeration: ", Node(t).name>>, BlankLine>>
    \o (IF Node(t).doc # "" THEN <<<<"**Description**: ", Node(t).doc>>, BlankLine>> ELSE <<>>)
    \o <<<<"**Valeurs possibles**:">>>>
    \o [j \in 1 .. Len(Node(t).symbols) |-> <<"- '", Node(t).symbols[j], "'">>]
    \o <<BlankLine>>

Document ==
    <<<<"# Documentation du Schema Avro">>, BlankLine,
      <<"## Structure du Schema">>, BlankLine>>
    \o DiagramBlock
    \o <<BlankLine,
         <<"## Schema Principal: ", schema.name>>,
         <<"- **Namespace**: ", schema.namespace>>,
         <<"- **Type**: ", schema.type>>>>
    \o (IF schema.doc # "" THEN <<<<"- **Description**: ", schema.doc>>, BlankLine>> ELSE <<>>)
    \o <<<<"### Structure des Champs">>, BlankLine>>
    \o ParseRecordFields(RootId)
    \o (IF records # <<>>
        THEN <<BlankLine, <<"## Definition Detaillee des Sous-Objets">>, BlankLine>>
             \o Flatten([i \in 1 .. Len(records) |-> SubObjectSection(records[i].value)])
        ELSE <<>>)
    \o (IF enums # <<>>
        THEN <<BlankLine, <<"## Enumerations">>, BlankLine>>
             \o Flatten([i \in 1 .. Len(enums) |-> EnumSection(enums[i].value)])
        ELSE <<>>)

(* The relation walk is over: the diagram block is closed and the document *)
(* assembled and returned.                                                 *)
AssembleDocument ==
    /\ pc = "relations"
    /\ rel_stack = <<>>
    /\ doc' = Document
    /\ passes' = passes + 1
    /\ pc' = "done"
    /\ UNCHANGED <<schema, records, enums, processed_types, extract_stack, rel_stack,
                   relations, processed_relations, mermaid_diagram, prev, visit_log,
                   expanded, suppressed, cutoffs>>

(***************************************************************************)
(* The specification.                                                      *)
(***************************************************************************)
NoOutput == [records |-> <<>>, enums |-> <<>>, relations |-> <<>>, doc |-> <<>>]

Init ==
    /\ schema \in Roots
    /\ records = <<>>
    /\ enums = <<>>
    /\ processed_types = {}
    /\ pc = "ready"
    /\ extract_stack = <<>>
    /\ rel_stack = <<>>
    /\ relations = <<>>
    /\ processed_relations = {}
    /\ mermaid_diagram = <<>>
    /\ doc = <<>>
    /\ passes = 0
    /\ prev = NoOutput
    /\ visit_log = <<>>
    /\ expanded = {}
    /\ suppressed = 0
    /\ cutoffs = 0

Next ==
    \/ Generate
    \/ ExtractFromType
    \/ GenerateMermaid
    \/ RelCall
    \/ RelLoop
    \/ RelReturn
    \/ AssembleDocument

Spec == Init /\ [][Next]_vars

(***************************************************************************)
(* The vocabulary of the properties, stated on the type tree and not on    *)
(* the walks above.                                                        *)
(***************************************************************************)
Done == pc = "done"
Extracted == (pc = "extract" /\ extract_stack = <<>>) \/ pc = "done"

IsRecord(t) == HasType(t) /\ TypeOf(t) = "record"
IsEnum(t) == HasType(t) /\ TypeOf(t) = "enum"
IsArray(t) == HasType(t) /\ TypeOf(t) = "array"
IsMap(t) == HasType(t) /\ TypeOf(t) = "map"
IsNamed(t) == IsRecord(t) \/ IsEnum(t)
IsPrimitive(t) == ~IsList(t) /\ ~IsNamed(t) /\ ~IsArray(t) /\ ~IsMap(t)

Range(s) == {s[i] : i \in 1 .. Len(s)}

(* The nodes one step below a node: field types, array items, map values,  *)
(* union members.  In(r, t) is node t of the tree whose root is r.          *)
In(r, t) == IF t = RootId THEN r ELSE Heap[t]
BelowNode(n) ==
    IF n.cls = "list" THEN Range(n.members)
    ELSE IF n.cls # "Schema" THEN {}
    ELSE IF n.type = "record" THEN {n.fields[i].type : i \in 1 .. Len(n.fields)}
    ELSE IF n.type = "array" THEN {n.items}
    ELSE IF n.type = "map" THEN {n.values}
    ELSE {}
Below(t) == BelowNode(Node(t))

(* One more step from the frontier F of the nodes S reached so far. *)
Grow(r, S, F) ==
    LET new == {t \in UNION {BelowNode(In(r, p)) : p \in F} : t \notin S}
    IN  <<S \cup new, new>>
RECURSIVE Closure(_, _, _)
Closure(r, S, F) ==
    IF F = {} THEN S
    ELSE CHOOSE R \in {Closure(r, P[1], P[2]) : P \in {Grow(r, S, F)}} : TRUE

(* The nodes reachable from the root in one step or more. *)
ReachableIn(r) == Closure(r, BelowNode(r), BelowNode(r))
Reachable == ReachableIn(schema)

(* A well-formed tree: no two named nodes of the tree share a name. *)
WellFormed ==
    \A a, b \in {t \in Reachable \cup {RootId} : IsNamed(t)} :
        a # b => Node(a).name # Node(b).name

(* The named nodes a field type holds without crossing a named node. *)
RECURSIVE NamedBeneath(_)
NamedBeneath(t) ==
    IF IsNamed(t) THEN {t}
    ELSE UNION {NamedBeneath(u) : u \in Below(t)}

Values(d) == {d[i].value : i \in 1 .. Len(d)}
NoRepeatedKey(d) == \A i, j \in 1 .. Len(d) : i # j => d[i].key # d[j].key

EdgeTuple(e) == <<e.src, e.tgt, e.label, e.kind>>
HasEdge(s, a, t, l) ==
    \E i \in 1 .. Len(relations) :
        /\ relations[i].src = s
        /\ relations[i].arrow = a
        /\ relations[i].tgt = t
        /\ relations[i].label = l
ExpandedRecords == {x \in expanded : IsRecord(x[1])}

(* Lines of the document: class declarations and solid-arrow lines. *)
ClassLines == {i \in 1 .. Len(doc) : Len(doc[i]) = 3 /\ doc[i][1] = "    class "}
SolidArrowLines == {i \in 1 .. Len(doc) : Len(doc[i]) = 8 /\ doc[i][4] = "-->"}
ArrowLines == {i \in 1 .. Len(doc) : Len(doc[i]) = 8 /\ doc[i][4] \in {"-->", "..>"}}

(***************************************************************************)
(* C1.  Registry completeness: once _extract_nested_types has run on a     *)
(* well-formed tree, self.records holds exactly the records and self.enums *)
(* exactly the enums reachable from the root through fields, array items,  *)
(* map values and union members, each under its own name and once, and     *)
(* nothing that is not a record (an enum) is registered.                   *)
(***************************************************************************)
C1_RegistryComplete ==
    (Extracted /\ WellFormed) =>
        /\ Values(records) = {t \in Reachable : IsRecord(t)}
        /\ Values(enums) = {t \in Reachable : IsEnum(t)}
        /\ \A i \in 1 .. Len(records) : records[i].key = Node(records[i].value).name
        /\ \A i \in 1 .. Len(enums) : enums[i].key = Node(enums[i].value).name
        /\ NoRepeatedKey(records) /\ NoRepeatedKey(enums)
        /\ Len(records) = Cardinality({t \in Reachable : IsRecord(t)})
        /\ Len(enums) = Cardinality({t \in Reachable : IsEnum(t)})

(* A well-formed tree whose named types lie behind a map, a union and an   *)
(* array, one of them reached along two paths.                             *)
C1_Witness ==
    /\ Done /\ WellFormed
    /\ \E m, u, a \in Reachable : IsMap(m) /\ IsList(u) /\ IsArray(a)
    /\ \E t \in Values(records) :
           Cardinality({p \in Reachable \cup {RootId} : t \in Below(p)}) >= 2
    /\ enums # <<>>

(***************************************************************************)
(* C3.  No duplicate edges: at no time do two lines of `relations` agree   *)
(* on (source, target, label, kind).                                       *)
(***************************************************************************)
C3_NoDuplicateEdges ==
    \A i, j \in 1 .. Len(relations) :
        i # j => EdgeTuple(relations[i]) # EdgeTuple(relations[j])

(* A finished run in which the dedup set held a line back. *)
C3_Witness == Done /\ suppressed > 0 /\ relations # <<>>

(***************************************************************************)
(* C2.  Termination on self-reference, for the trees that hold a cycle:    *)
(* each walk of a pass ends, the relation lines stay within a bound that   *)
(* does not depend on the depth of the walk, and a record with a field of  *)
(* its own type ends with exactly one self-edge for that field.            *)
(***************************************************************************)
(* A finite tree holds a cycle unless taking away, again and again, the    *)
(* nodes with nothing left below them takes every node away.               *)
Inner(below, S) == {t \in S : \E u \in below[t] : u \in S}
RECURSIVE Peel(_, _)
Peel(below, S) ==
    CHOOSE R \in {IF N = S THEN S ELSE Peel(below, N) : N \in {Inner(below, S)}} : TRUE
HasCycleIn(r) ==
    \E below \in {[t \in NodeIds |-> BelowNode(In(r, t))]} :
        Peel(below, {t \in NodeIds : t = RootId \/ t \in ReachableIn(r)}) # {}
CyclicRoots == {r \in Roots : HasCycleIn(r)}

CyclicInit ==
    /\ schema \in CyclicRoots
    /\ records = <<>>
    /\ enums = <<>>
    /\ processed_types = {}
    /\ pc = "ready"
    /\ extract_stack = <<>>
    /\ rel_stack = <<>>
    /\ relations = <<>>
    /\ processed_relations = {}
    /\ mermaid_diagram = <<>>
    /\ doc = <<>>
    /\ passes = 0
    /\ prev = NoOutput
    /\ visit_log = <<>>
    /\ expanded = {}
    /\ suppressed = 0
    /\ cutoffs = 0
CyclicSpec == CyclicInit /\ [][Next]_vars /\ WF_vars(Next)

SelfFields(t) == {i \in 1 .. Len(Node(t).fields) : Node(t).fields[i].type = t}
SelfEdges(t, i) ==
    {k \in 1 .. Len(relations) :
        /\ relations[k].src = Node(t).name
        /\ relations[k].tgt = Node(t).name
        /\ relations[k].label = Node(t).fields[i].name}
OneSelfEdge ==
    Done => \A x \in ExpandedRecords : \A i \in SelfFields(x[1]) :
                Cardinality(SelfEdges(x[1], i)) = 1
RelationBound == Cardinality(NodeIds) * Cardinality(NodeIds)

C2_TerminatesOnCycles ==
    /\ (pc = "extract") ~> (pc = "relations")
    /\ (pc = "relations") ~> (pc = "done")
    /\ [](Len(relations) <= RelationBound)
    /\ []OneSelfEdge

(* A finished run that went round a self-referential record down to the    *)
(* depth guard and holds its self-edge.                                    *)
C2_Witness ==
    /\ Done /\ cutoffs > 0 /\ suppressed > 0
    /\ \E x \in ExpandedRecords :
           /\ x[2] = MaxDepth
           /\ SelfFields(x[1]) # {}
           /\ \A i \in SelfFields(x[1]) : Cardinality(SelfEdges(x[1], i)) = 1

(***************************************************************************)
(* C4.  Relation completeness (as claimed): when the run is over, for      *)
(* every record A of the tree and every named type B that a field of A     *)
(* holds, directly or beneath arrays, maps and unions, exactly one line    *)
(* A -> B carries that field's name or B's list label.                     *)
(***************************************************************************)
FieldEdges(a, f, b) ==
    {k \in 1 .. Len(relations) :
        /\ relations[k].src = Node(a).name
        /\ relations[k].tgt = Node(b).name
        /\ relations[k].label \in {f.name, Node(b).name \o " liste"}}
C4_RelationComplete ==
    Done => \A a \in {t \in Reachable \cup {RootId} : IsRecord(t)} :
                \A f \in Range(Node(a).fields) :
                    \A b \in NamedBeneath(f.type) :
                        Cardinality(FieldEdges(a, f, b)) = 1

(***************************************************************************)
(* C5.  Scenario A generalised.  The root's only non-primitive field has   *)
(* as its type a record S, not the root, whose fields are all primitive.   *)
(***************************************************************************)
NonPrimitiveFields(t) == {i \in 1 .. Len(Node(t).fields) : ~IsPrimitive(Node(t).fields[i].type)}
ScenarioA ==
    /\ Cardinality(NonPrimitiveFields(RootId)) = 1
    /\ \A i \in NonPrimitiveFields(RootId) :
           LET s == schema.fields[i].type
           IN  IsRecord(s) /\ s # RootId /\ NonPrimitiveFields(s) = {}
ScenarioAField == schema.fields[CHOOSE i \in NonPrimitiveFields(RootId) : TRUE]
ScenarioARegistryAndEdge ==
    /\ records = <<[key |-> Node(ScenarioAField.type).name, value |-> ScenarioAField.type]>>
    /\ enums = <<>>
    /\ Len(relations) = 1
    /\ EdgeTuple(relations[1]) =
           <<schema.name, Node(ScenarioAField.type).name, ScenarioAField.name, "record">>
    /\ relations[1].arrow = "-->"
    /\ Cardinality(ArrowLines) = 1
    /\ Cardinality(SolidArrowLines) = 1

(* As claimed: two class declarations, one for R and one for S. *)
C5_ScenarioA_TwoClasses ==
    (Done /\ ScenarioA) =>
        /\ ScenarioARegistryAndEdge
        /\ Cardinality(ClassLines) = 2

(* As amended: the registry holds S alone, the relation set is the one     *)
(* composition edge R -> S labelled f, and the diagram block holds one     *)
(* class declaration, that of S (the root is not in self.records and gets  *)
(* none), and one solid-arrow line.                                        *)
C5_ScenarioA_OneClass ==
    (Done /\ ScenarioA) =>
        /\ ScenarioARegistryAndEdge
        /\ Cardinality(ClassLines) = 1
        /\ \A i \in ClassLines : doc[i][2] = Node(ScenarioAField.type).name

C5_Witness == Done /\ ScenarioA /\ Len(schema.fields) >= 2 /\ passes = 1

(***************************************************************************)
(* C6.  Array classification.  P is a record the relation walk expanded    *)
(* and f a field of P whose type is an array of a named record or enum T.  *)
(***************************************************************************)
ArrayFields(t) ==
    {i \in 1 .. Len(Node(t).fields) :
        /\ IsArray(Node(t).fields[i].type)
        /\ IsNamed(Node(Node(t).fields[i].type).items)}
ListEdgeFor(p, f) ==
    LET t == Node(f.type).items
    IN  /\ \E k \in 1 .. Len(relations) :
               /\ relations[k].src = Node(p).name
               /\ relations[k].tgt = Node(t).name
               /\ relations[k].label = Node(t).name \o " liste"
               /\ relations[k].label # f.name
               /\ relations[k].arrow = (IF IsRecord(t) THEN "-->" ELSE "..>")
               /\ relations[k].kind = (IF IsRecord(t) THEN "array_record" ELSE "array_enum")
        /\ ~\E k \in 1 .. Len(relations) :
               /\ relations[k].src = Node(p).name
               /\ relations[k].label = f.name
               /\ relations[k].kind \in {"record", "enum", "record_list", "enum_list"}

(* As claimed: for every expanded record, whatever its depth. *)
C6_ArrayClassification_AnyDepth ==
    Done => \A x \in ExpandedRecords : \A i \in ArrayFields(x[1]) :
                ListEdgeFor(x[1], Node(x[1]).fields[i])

(* As amended: for every record expanded at a depth of at most 9, so that  *)
(* the array, visited one level deeper, is within the depth guard.         *)
C6_ArrayClassification ==
    Done => \A x \in ExpandedRecords : \A i \in ArrayFields(x[1]) :
                x[2] < MaxDepth => ListEdgeFor(x[1], Node(x[1]).fields[i])

(* A finished run with an array field of a record expanded at depth 9 and  *)
(* an array of records elsewhere.                                          *)
C6_Witness ==
    /\ Done
    /\ \E x \in ExpandedRecords : x[2] = MaxDepth - 1 /\ ArrayFields(x[1]) # {}
    /\ \E i \in ArrayFields(RootId) : IsRecord(Node(schema.fields[i].type).items)

(***************************************************************************)
(* C7.  First occurrence wins (as claimed): after the registry walk, the   *)
(* entry of every name in self.records and in self.enums is the first node *)
(* of that type and name the walk came to.                                 *)
(***************************************************************************)
FirstVisited(type, name) ==
    visit_log[CHOOSE i \in 1 .. Len(visit_log) :
                 /\ HasType(visit_log[i]) /\ TypeOf(visit_log[i]) = type
                 /\ Node(visit_log[i]).name = name
                 /\ \A j \in 1 .. (i - 1) :
                        ~(/\ HasType(visit_log[j]) /\ TypeOf(visit_log[j]) = type
                          /\ Node(visit_log[j]).name = name)]
C7_FirstOccurrenceWins ==
    Extracted =>
        /\ \A i \in 1 .. Len(records) : records[i].value = FirstVisited("record", records[i].key)
        /\ \A i \in 1 .. Len(enums) : enums[i].value = FirstVisited("enum", enums[i].key)
        /\ NoRepeatedKey(records) /\ NoRepeatedKey(enums)

(***************************************************************************)
(* C8.  Idempotence: a pass that follows another on the same instance and  *)
(* tree ends with the registries, the relation lines and the document of   *)
(* the pass before it.                                                     *)
(***************************************************************************)
C8_Idempotent ==
    (Done /\ passes >= 2) =>
        /\ records = prev.records
        /\ enums = prev.enums
        /\ relations = prev.relations
        /\ doc = prev.doc

(* A second pass is over on a tree with records, enums and a held-back line. *)
C8_Witness ==
    Done /\ passes >= 2 /\ records # <<>> /\ enums # <<>> /\ suppressed > 0
         /\ prev.doc # <<>>

(***************************************************************************)
(* C9.  Union transparency (as claimed): for a record P expanded at least  *)
(* two levels above the depth guard and a field f of P whose type is a     *)
(* union, a record member gives P --> member : f and has its own fields'   *)
(* edges emitted, an enum member gives P ..> member : f, and an array      *)
(* member of a named type gives the list edge under the element's name.    *)
(***************************************************************************)
OwnEdges(t) ==
    \A g \in Range(Node(t).fields) :
        /\ IsRecord(g.type) => HasEdge(Node(t).name, "-->", Node(g.type).name, g.name)
        /\ IsEnum(g.type) => HasEdge(Node(t).name, "..>", Node(g.type).name, g.name)
MemberProcessed(p, f, m) ==
    /\ IsRecord(m) => HasEdge(Node(p).name, "-->", Node(m).name, f.name) /\ OwnEdges(m)
    /\ IsEnum(m) => HasEdge(Node(p).name, "..>", Node(m).name, f.name)
    /\ (IsArray(m) /\ IsRecord(Node(m).items)) =>
           HasEdge(Node(p).name, "-->", Node(Node(m).items).name,
                   Node(Node(m).items).name \o " liste")
    /\ (IsArray(m) /\ IsEnum(Node(m).items)) =>
           HasEdge(Node(p).name, "..>", Node(Node(m).items).name,
                   Node(Node(m).items).name \o " liste")
C9_UnionTransparency ==
    Done => \A x \in ExpandedRecords : x[2] + 2 <= MaxDepth =>
                \A f \in Range(Node(x[1]).fields) : IsList(f.type) =>
                    \A m \in Range(Node(f.type).members) : MemberProcessed(x[1], f, m)

(***************************************************************************)
(* C10.  Depth cutoff: the root is visited at depth 0 and every inner call *)
(* is deeper than its caller; no call is expanded at a depth above 10; no  *)
(* line is written at a depth above 10 nor for a source record that was    *)
(* not expanded at depth 10 or less; and the run still ends, with every    *)
(* field of every expanded record processed.                               *)
(***************************************************************************)
StackDepthsOrdered ==
    /\ \A k \in 1 .. (Len(rel_stack) - 1) : rel_stack[k].depth > rel_stack[k + 1].depth
    /\ rel_stack # <<>> => /\ rel_stack[Len(rel_stack)].node = RootId
                           /\ rel_stack[Len(rel_stack)].depth = 0
C10_DepthCutoff ==
    /\ StackDepthsOrdered
    /\ \A x \in expanded : x[2] <= 10
    /\ \A k \in 1 .. Len(relations) :
           /\ relations[k].depth <= 10
           /\ \E x \in ExpandedRecords :
                  Node(x[1]).name = relations[k].src /\ x[2] <= 10
    /\ Done => \A x \in ExpandedRecords : OwnEdges(x[1])

(* A finished run in which the guard cut a branch below the root's first   *)
(* field, a registered record was never expanded, and the root's second    *)
(* field still gave its line.                                              *)
C10_Witness ==
    /\ Done /\ cutoffs > 0
    /\ \E t \in Values(records) : \A x \in expanded : x[1] # t
    /\ Len(schema.fields) >= 2
    /\ \E k \in 1 .. Len(relations) :
           /\ relations[k].src = schema.name
           /\ relations[k].label = schema.fields[2].name
           /\ \E j \in 1 .. (k - 1) : relations[j].depth = MaxDepth

=============================================================================
